---- MODULE Spec2Model ----
(***************************************************************************)
(* Model of go-kv: the lock-guarded skip list (internal/skiplist), the     *)
(* generational memtable (internal/memtable) and its unlocked skip list.   *)
(*                                                                         *)
(* Pointers are indices into a per-list arena `nodes`; 0 is the nil        *)
(* pointer.  Go slices are 0-based, TLA+ sequences 1-based: the link of    *)
(* layer i is nexts[i + 1].  Strings are sequences of byte codes compared  *)
(* bytewise, as Go compares strings.                                       *)
(***************************************************************************)
EXTENDS Integers, Sequences, FiniteSets, TLC

(* ------------------------------ bounds --------------------------------- *)
\* The tower height the model explores.  The source fixes it at 16; every
\* algorithm below is written against maxHeight, and a node of full height
\* is reachable in the source whenever liftLayers returns maxHeight.
MaxHeightBound == 3
\* Number of nodes one list may allocate besides head and tail.
MaxNodes == 2
\* How far below zero (mod 2^64) the live count may be driven.
MaxUnder == 2

(* ------------------------------ strings -------------------------------- *)
EmptyStr == <<>>
Keys == {EmptyStr, <<1>>, <<2>>}

RECURSIVE strLess(_, _)
\* Go's `a < b` on strings: bytewise lexicographic order.
strLess(a, b) ==
    IF a = <<>> THEN b # <<>>
    ELSE IF b = <<>> THEN FALSE
    ELSE IF a[1] # b[1] THEN a[1] < b[1]
    ELSE strLess(Tail(a), Tail(b))

strLeq(a, b) == a = b \/ strLess(a, b)

(* ========================= internal/skiplist =========================== *)
maxHeight == MaxHeightBound

\* interface{} values: nil is the tombstone marker.
Nil == "nil"
Vals == {"v1", "v2"}

NilPtr == 0

\* Unsigned counters (uint64 size here, uint32 len/size in the memtable) are
\* held as their two's-complement reading: x itself below 2^(w-1), x - 2^w
\* from there on, so the all-ones word 2^w - 1 is -1 and 0 - 1 wraps to it.
\* + and - then need no reduction inside the explored range; unsigned order
\* is uLess.
uLess(a, b) ==
    IF (a < 0) = (b < 0) THEN a < b ELSE b < 0

uLeq(a, b) == a = b \/ uLess(a, b)

\* liftLayers: any layer count in 1..maxHeight can come out of the coin flips.
liftLayers == 1..maxHeight

newNode(key, val, layerNum) ==
    [nexts |-> [i \in 1..layerNum |-> NilPtr], key |-> key, val |-> val]

\* NewSkipList: head is node 1, tail is node 2, head links to tail at every
\* layer, tail links to nil, both carry the zero-value key and a nil value.
NewSkipList ==
    [head |-> 1, tail |-> 2, size |-> 0,
     nodes |-> << [nexts |-> [i \in 1..maxHeight |-> 2], key |-> EmptyStr, val |-> Nil],
                  [nexts |-> [i \in 1..maxHeight |-> NilPtr], key |-> EmptyStr, val |-> Nil] >>]

GetSize(st) == st.size

IsEmpty(st) == st.size = 0

initBound(initNode) == [i \in 1..maxHeight |-> initNode]

RECURSIVE narrowLoop(_, _, _, _, _, _, _, _)
\* The for-loop of narrowDownBound.  Dereferencing a nil `next` is a Go
\* runtime panic, reported as ok = FALSE.
narrowLoop(nodes, head, tail, rightBound, key, layer, cur, next) ==
    LET leftOk == cur = head \/ strLeq(nodes[cur].key, key)
    IN  IF next = rightBound THEN [cur |-> cur, next |-> next, ok |-> TRUE]
        ELSE IF leftOk /\ next # tail /\ next = NilPtr
             THEN [cur |-> cur, next |-> next, ok |-> FALSE]
        ELSE IF leftOk /\ (next = tail \/ strLeq(key, nodes[next].key))
             THEN [cur |-> cur, next |-> next, ok |-> TRUE]
        ELSE IF next = NilPtr \/ layer + 1 > Len(nodes[next].nexts)
             THEN [cur |-> cur, next |-> next, ok |-> FALSE]
        ELSE narrowLoop(nodes, head, tail, rightBound, key, layer,
                        next, nodes[next].nexts[layer + 1])

narrowDownBound(nodes, head, tail, leftBound, rightBound, key, layer) ==
    narrowLoop(nodes, head, tail, rightBound, key, layer,
               leftBound, nodes[leftBound].nexts[layer + 1])

RECURSIVE searchLoop(_, _, _, _, _)
\* The body of that loop once narrowDownBound has returned b: the bounds of
\* layer i are stored and handed down to layer i - 1.
searchLayer(st, key, i, leftBounds, rightBounds, b) ==
    LET l1 == [leftBounds EXCEPT ![i + 1] = b.cur]
        r1 == [rightBounds EXCEPT ![i + 1] = b.next]
    IN  IF ~b.ok THEN [l |-> l1, r |-> r1, ok |-> FALSE]
        ELSE IF i = 0 THEN [l |-> l1, r |-> r1, ok |-> TRUE]
        ELSE searchLoop(st, key, i - 1,
                        [l1 EXCEPT ![i] = b.cur], [r1 EXCEPT ![i] = b.next])

\* The descending for-loop of searchBounds, from layer i down to layer 0.
searchLoop(st, key, i, leftBounds, rightBounds) ==
    searchLayer(st, key, i, leftBounds, rightBounds,
                narrowDownBound(st.nodes, st.head, st.tail,
                                leftBounds[i + 1], rightBounds[i + 1], key, i))

\* The end of searchBounds: s is what the loop left, b what the last
\* narrowDownBound, on layer 0, returned.
lastBounds(s, b) ==
    [l |-> [s.l EXCEPT ![1] = b.cur], r |-> [s.r EXCEPT ![1] = b.next], ok |-> b.ok]

afterLoop(st, key, s) ==
    IF ~s.ok THEN s
    ELSE lastBounds(s, narrowDownBound(st.nodes, st.head, st.tail,
                                       s.l[1], s.r[1], key, 0))

searchBounds(st, key) ==
    IF st.size = 0
    THEN [l |-> initBound(st.head), r |-> initBound(st.tail), ok |-> TRUE]
    ELSE afterLoop(st, key,
             searchLoop(st, key, maxHeight - 1,
                 [initBound(st.head) EXCEPT ![maxHeight] = st.head],
                 [initBound(st.tail) EXCEPT ![maxHeight] =
                      st.nodes[st.head].nexts[maxHeight]]))

\* Returns the matching node, or NilPtr.
searchWithBounds(st, key, leftBounds, rightBounds) ==
    IF leftBounds[1] # st.head /\ st.nodes[leftBounds[1]].key = key
    THEN leftBounds[1]
    ELSE IF rightBounds[1] # st.head /\ st.nodes[rightBounds[1]].key = key
    THEN rightBounds[1]
    ELSE NilPtr

\* search: the node found, NilPtr, or -1 when the walk panics.
search(st, key) ==
    LET b == searchBounds(st, key)
    IN  IF ~b.ok THEN -1 ELSE searchWithBounds(st, key, b.l, b.r)

Panic == "panic"

\* Search: the value returned to the caller (Nil for not-found as well as
\* for a tombstoned node), or Panic.
Search(st, key) ==
    LET node == search(st, key)
    IN  IF node = -1 THEN Panic
        ELSE IF node = NilPtr THEN Nil
        ELSE st.nodes[node].val

\* One iteration of the splice loop of update: layer i.
spliceLayer(nodes, node, leftBounds, rightBounds, i) ==
    [nodes EXCEPT ![leftBounds[i + 1]].nexts[i + 1] = node,
                  ![node].nexts[i + 1] = rightBounds[i + 1]]

RECURSIVE splice(_, _, _, _, _, _)
\* The splice loop of update for layers i..layerNum-1.
splice(nodes, node, leftBounds, rightBounds, i, layerNum) ==
    IF i >= layerNum THEN nodes
    ELSE splice(spliceLayer(nodes, node, leftBounds, rightBounds, i),
                node, leftBounds, rightBounds, i + 1, layerNum)

\* update, the branch taken when the key has a node: the count goes up when
\* the node was a tombstone, the value is overwritten.
updateFound(st, node, val) ==
    [st EXCEPT !.size = IF st.nodes[node].val = Nil THEN st.size + 1 ELSE st.size,
               !.nodes[node].val = val]

\* update: the list after the call; layerNum is what liftLayers returns when
\* a node has to be created.  A panicking walk leaves the list untouched.
update(st, key, val, layerNum) ==
    LET b    == searchBounds(st, key)
        node == searchWithBounds(st, key, b.l, b.r)
    IN  IF ~b.ok THEN st
        ELSE IF node # NilPtr THEN updateFound(st, node, val)
        ELSE LET new == Len(st.nodes) + 1
             IN  [st EXCEPT !.nodes = splice(Append(st.nodes, newNode(key, val, layerNum)),
                                             new, b.l, b.r, 0, layerNum),
                            !.size = st.size + 1]

\* TRUE when update(st, key, ...) reaches liftLayers and allocates a node.
allocates(st, key) ==
    LET b == searchBounds(st, key)
    IN  b.ok /\ searchWithBounds(st, key, b.l, b.r) = NilPtr

\* Delete, the two writes made once a node was found.
deleteFound(st, node) ==
    [st EXCEPT !.nodes[node].val = Nil, !.size = st.size - 1]

\* The body of Delete after the lock is taken.
delete(st, key) ==
    LET b    == searchBounds(st, key)
        node == searchWithBounds(st, key, b.l, b.r)
    IN  IF ~b.ok \/ node = NilPtr THEN st ELSE deleteFound(st, node)

(* ========================= internal/memtable =========================== *)
\* The memtable's own skip list (memtable/skiplist.go): no lock taken by
\* Get/Update, []byte values, a len and a byte size.
mem_maxHeight == MaxHeightBound

\* []byte values are byte sequences; the nil slice is NilBytes, which no byte
\* sequence equals (bytes are 0..255) and whose len() is 0.
NilBytes == <<-1>>

byteLen(val) == IF val = NilBytes THEN 0 ELSE Len(val)

mem_liftLayers == 1..mem_maxHeight

mem_newNode(key, val, layerNum) ==
    [nexts |-> [i \in 1..layerNum |-> NilPtr], key |-> key, val |-> val]

mem_NewSkipList ==
    [head |-> 1, tail |-> 2, len |-> 0, size |-> 0,
     nodes |-> << [nexts |-> [i \in 1..mem_maxHeight |-> 2], key |-> EmptyStr, val |-> NilBytes],
                  [nexts |-> [i \in 1..mem_maxHeight |-> NilPtr], key |-> EmptyStr, val |-> NilBytes] >>]

mem_GetLen(st) == st.len

mem_GetSize(st) == st.size

mem_initBound(initNode) == [i \in 1..mem_maxHeight |-> initNode]

RECURSIVE mem_narrowLoop(_, _, _, _, _, _, _, _)
mem_narrowLoop(nodes, head, tail, rightBound, key, layer, cur, next) ==
    LET leftOk == cur = head \/ strLeq(nodes[cur].key, key)
    IN  IF next = rightBound THEN [cur |-> cur, next |-> next, ok |-> TRUE]
        ELSE IF leftOk /\ next # tail /\ next = NilPtr
             THEN [cur |-> cur, next |-> next, ok |-> FALSE]
        ELSE IF leftOk /\ (next = tail \/ strLeq(key, nodes[next].key))
             THEN [cur |-> cur, next |-> next, ok |-> TRUE]
        ELSE IF next = NilPtr \/ layer + 1 > Len(nodes[next].nexts)
             THEN [cur |-> cur, next |-> next, ok |-> FALSE]
        ELSE mem_narrowLoop(nodes, head, tail, rightBound, key, layer,
                            next, nodes[next].nexts[layer + 1])

mem_narrowDownBound(nodes, head, tail, leftBound, rightBound, key, layer) ==
    mem_narrowLoop(nodes, head, tail, rightBound, key, layer,
                   leftBound, nodes[leftBound].nexts[layer + 1])

RECURSIVE mem_searchLoop(_, _, _, _, _)
mem_searchLayer(st, key, i, leftBounds, rightBounds, b) ==
    LET l1 == [leftBounds EXCEPT ![i + 1] = b.cur]
        r1 == [rightBounds EXCEPT ![i + 1] = b.next]
    IN  IF ~b.ok THEN [l |-> l1, r |-> r1, ok |-> FALSE]
        ELSE IF i = 0 THEN [l |-> l1, r |-> r1, ok |-> TRUE]
        ELSE mem_searchLoop(st, key, i - 1,
                            [l1 EXCEPT ![i] = b.cur], [r1 EXCEPT ![i] = b.next])

mem_searchLoop(st, key, i, leftBounds, rightBounds) ==
    mem_searchLayer(st, key, i, leftBounds, rightBounds,
                    mem_narrowDownBound(st.nodes, st.head, st.tail,
                                        leftBounds[i + 1], rightBounds[i + 1], key, i))

mem_lastBounds(s, b) ==
    [l |-> [s.l EXCEPT ![1] = b.cur], r |-> [s.r EXCEPT ![1] = b.next], ok |-> b.ok]

mem_afterLoop(st, key, s) ==
    IF ~s.ok THEN s
    ELSE mem_lastBounds(s, mem_narrowDownBound(st.nodes, st.head, st.tail,
                                               s.l[1], s.r[1], key, 0))

mem_searchBounds(st, key) ==
    IF st.size = 0
    THEN [l |-> mem_initBound(st.head), r |-> mem_initBound(st.tail), ok |-> TRUE]
    ELSE mem_afterLoop(st, key,
             mem_searchLoop(st, key, mem_maxHeight - 1,
                 [mem_initBound(st.head) EXCEPT ![mem_maxHeight] = st.head],
                 [mem_initBound(st.tail) EXCEPT ![mem_maxHeight] =
                      st.nodes[st.head].nexts[mem_maxHeight]]))

mem_searchWithBounds(st, key, leftBounds, rightBounds) ==
    IF leftBounds[1] # st.head /\ st.nodes[leftBounds[1]].key = key
    THEN leftBounds[1]
    ELSE IF rightBounds[1] # st.head /\ st.nodes[rightBounds[1]].key = key
    THEN rightBounds[1]
    ELSE NilPtr

\* Skiplist.Get: the node found, NilPtr, or -1 when the walk panics.
mem_Get(st, key) ==
    LET b == mem_searchBounds(st, key)
    IN  IF ~b.ok THEN -1 ELSE mem_searchWithBounds(st, key, b.l, b.r)

RECURSIVE mem_splice(_, _, _, _, _, _)
mem_splice(nodes, node, leftBounds, rightBounds, i, layerNum) ==
    IF i >= layerNum THEN nodes
    ELSE mem_splice([nodes EXCEPT ![leftBounds[i + 1]].nexts[i + 1] = node,
                                  ![node].nexts[i + 1] = rightBounds[i + 1]],
                    node, leftBounds, rightBounds, i + 1, layerNum)

\* Skiplist.Update, the branch taken when the key has a node.
mem_updateFound(st, node, val) ==
    IF st.nodes[node].val = NilBytes
    THEN [st EXCEPT !.len = st.len + 1, !.size = st.size + byteLen(val)]
    ELSE [st EXCEPT !.size = st.size - byteLen(st.nodes[node].val) + byteLen(val),
                    !.nodes[node].val = val]

\* Skiplist.Update: the list after the call (a panicking walk leaves it
\* untouched); Delete passes NilBytes.
mem_Update(st, key, val, layerNum) ==
    LET b    == mem_searchBounds(st, key)
        node == mem_searchWithBounds(st, key, b.l, b.r)
    IN  IF ~b.ok THEN st
        ELSE IF node # NilPtr THEN mem_updateFound(st, node, val)
        ELSE LET new == Len(st.nodes) + 1
             IN  [st EXCEPT !.nodes = mem_splice(Append(st.nodes, mem_newNode(key, val, layerNum)),
                                                 new, b.l, b.r, 0, layerNum),
                            !.len = st.len + 1,
                            !.size = st.size + (Len(key) + byteLen(val))]

\* TRUE when Skiplist.Update reaches liftLayers and allocates a node.
mem_allocates(st, key) ==
    LET b == mem_searchBounds(st, key)
    IN  b.ok /\ mem_searchWithBounds(st, key, b.l, b.r) = NilPtr

(* ------------------------------ memtable ------------------------------- *)
\* The rotation threshold the model explores; the source fixes it at
\* 256 MiB and compares it with the generation's byte size only.
ThresholdBound == 3
skipListThreshold == ThresholdBound

NewMemtable == [skiplists |-> <<>>]

RECURSIVE getFrom(_, _, _)
\* memtable.Get: the range loop from generation i on; (value, found), and
\* panic when a walk dereferences nil.
getFrom(skiplists, key, i) ==
    IF i > Len(skiplists) THEN [val |-> NilBytes, ok |-> FALSE, panic |-> FALSE]
    ELSE LET node == mem_Get(skiplists[i], key)
         IN  IF node = -1 THEN [val |-> NilBytes, ok |-> FALSE, panic |-> TRUE]
             ELSE IF node = NilPtr THEN getFrom(skiplists, key, i + 1)
             ELSE [val |-> skiplists[i].nodes[node].val, ok |-> TRUE, panic |-> FALSE]

memtable_Get(m, key) == getFrom(m.skiplists, key, 1)

popSkiplist(m) ==
    IF Len(m.skiplists) = 0 THEN m
    ELSE [m EXCEPT !.skiplists = SubSeq(m.skiplists, 1, Len(m.skiplists) - 1)]

newSkiplist(m) == [m EXCEPT !.skiplists = <<mem_NewSkipList>> \o m.skiplists]

\* Rotation that fires only above the threshold.
needsRotation_Strict(m) ==
    Len(m.skiplists) = 0 \/ uLess(skipListThreshold, mem_GetSize(m.skiplists[1]))

\* Rotation that fires as soon as generation 0 holds anything.
needsRotation_Eager(m) ==
    Len(m.skiplists) = 0 \/ mem_GetSize(m.skiplists[1]) # 0

\* `len(mt.skiplists) == 0 || mt.skiplists[0].GetSize() >= skipListThreshold`
needsRotation(m) ==
    Len(m.skiplists) = 0 \/ uLeq(skipListThreshold, mem_GetSize(m.skiplists[1]))

\* The generation list the write is applied to.
rotated(m) == IF needsRotation(m) THEN newSkiplist(m) ELSE m

\* The write sent to the oldest generation.
writeFirst_Oldest(m, key, val, layerNum) ==
    [m EXCEPT !.skiplists[Len(m.skiplists)] =
                  mem_Update(m.skiplists[Len(m.skiplists)], key, val, layerNum)]

\* `mt.skiplists[0].Update(key, val)`
writeFirst(m, key, val, layerNum) ==
    [m EXCEPT !.skiplists[1] = mem_Update(m.skiplists[1], key, val, layerNum)]

\* MemtableIterator: `st` is the generation the iterator points to, `cursor`
\* the node it stands on; `gen` records at which position of mt.skiplists
\* (1 is index 0) that generation was when the iterator was made. The
\* generation is held by pointer: it stays what it was when mt.skiplists
\* drops or shifts it.
NilIterator == [st |-> mem_NewSkipList, cursor |-> NilPtr, gen |-> 0, nil |-> TRUE]

\* An iterator handed out as soon as one generation exists.
getLastIterator_AtLeastOne(m) ==
    IF Len(m.skiplists) = 0 THEN NilIterator
    ELSE LET lastSkiplist == m.skiplists[Len(m.skiplists)]
         IN  [st |-> lastSkiplist,
              cursor |-> lastSkiplist.nodes[lastSkiplist.head].nexts[1],
              gen |-> Len(m.skiplists), nil |-> FALSE]

getLastIterator(m) ==
    IF Len(m.skiplists) <= 1 THEN NilIterator
    ELSE LET lastSkiplist == m.skiplists[Len(m.skiplists)]
         IN  [st |-> lastSkiplist,
              cursor |-> lastSkiplist.nodes[lastSkiplist.head].nexts[1],
              gen |-> Len(m.skiplists), nil |-> FALSE]

getKey(i) == i.st.nodes[i.cursor].key

getVal(i) == i.st.nodes[i.cursor].val

next(i) == [i EXCEPT !.cursor = i.st.nodes[i.cursor].nexts[1]]

hasNext(i) == i.cursor # NilPtr /\ i.cursor # i.st.tail

(* ---------------------------- internal/btree --------------------------- *)
\* A BTreeNode is the sequence of its bytes (position 1 is offset 0). A
\* sub-slice is the window [off, len, cap] it occupies in the node's buffer;
\* `ok` is FALSE when the slice expression panics (slice bounds out of
\* range). A uint64 is the sequence of its four 16-bit limbs, lowest first.
PageCap == 32

uint16(x) == x % 65536

internal == 0
leaf == 1

typeLiteralInternal == "INTERNAL"
typeLiteralLeaf == "LEAF"

getTypeLiteral(type_) == IF type_ = internal THEN typeLiteralInternal ELSE typeLiteralLeaf

headerLen == 8
typeOffset == 0
typeLen == 2
countOffset == 2
countLen == 2
sizeOffset == 4
sizeLen == 2

BadSlice == [off |-> 0, len |-> 0, cap |-> 0, ok |-> FALSE]

\* The node itself as a slice.
whole(node) == [off |-> 0, len |-> Len(node), cap |-> Len(node), ok |-> TRUE]

\* `slice[offset : offset+len]`: the sum is a uint16, the high bound is
\* checked against the capacity.
getSlice(slice, offset, len) ==
    LET high == uint16(offset + len)
    IN  IF ~slice.ok \/ offset > high \/ high > slice.cap THEN BadSlice
        ELSE [off |-> slice.off + offset, len |-> high - offset,
              cap |-> slice.cap - offset, ok |-> TRUE]

\* `slice[:high]`
sliceTo(slice, high) ==
    IF ~slice.ok \/ high > slice.cap THEN BadSlice
    ELSE [off |-> slice.off, len |-> high, cap |-> slice.cap, ok |-> TRUE]

\* `slice[low:]`
sliceFrom(slice, low) ==
    IF ~slice.ok \/ low > slice.len THEN BadSlice
    ELSE [off |-> slice.off + low, len |-> slice.len - low,
          cap |-> slice.cap - low, ok |-> TRUE]

\* The bytes a slice shows.
bytesOf(node, slice) == [i \in 1..slice.len |-> node[slice.off + i]]

\* binary.BigEndian.Uint16
Uint16_BigEndian(node, slice) == 256 * node[slice.off + 1] + node[slice.off + 2]

\* binary.LittleEndian.Uint16
Uint16(node, slice) == node[slice.off + 1] + 256 * node[slice.off + 2]

\* binary.LittleEndian.PutUint16
PutUint16(node, slice, v) ==
    [node EXCEPT ![slice.off + 1] = v % 256, ![slice.off + 2] = v \div 256]

\* binary.LittleEndian.Uint64
Uint64(node, slice) ==
    [k \in 1..4 |-> node[slice.off + 2 * k - 1] + 256 * node[slice.off + 2 * k]]

\* binary.BigEndian.PutUint64
PutUint64_BigEndian(node, slice, v) ==
    [i \in 1..Len(node) |->
        IF i > slice.off /\ i <= slice.off + 8
        THEN LET j == 9 - (i - slice.off)
                 limb == v[(j + 1) \div 2]
             IN  IF j % 2 = 1 THEN limb % 256 ELSE limb \div 256
        ELSE node[i]]

\* binary.LittleEndian.PutUint64
PutUint64(node, slice, v) ==
    [i \in 1..Len(node) |->
        IF i > slice.off /\ i <= slice.off + 8
        THEN LET j == i - slice.off
                 limb == v[(j + 1) \div 2]
             IN  IF j % 2 = 1 THEN limb % 256 ELSE limb \div 256
        ELSE node[i]]

\* BTreeNodeType is a byte: the conversion keeps the low 8 bits.
getType(node) == Uint16(node, getSlice(whole(node), typeOffset, typeLen)) % 256

setType(node, type_) == PutUint16(node, getSlice(whole(node), typeOffset, typeLen), type_)

getCount(node) == Uint16(node, getSlice(whole(node), countOffset, countLen))

setCount(node, count) == PutUint16(node, getSlice(whole(node), countOffset, countLen), count)

getSize(node) == Uint16(node, getSlice(whole(node), sizeOffset, sizeLen))

setSize(node, size) == PutUint16(node, getSlice(whole(node), sizeOffset, sizeLen), size)

ZeroPtr == <<0, 0, 0, 0>>

\* What an accessor call gave: a value ("ok") or the panic it ended in.
NoRes ==
    [kind |-> "none", idx |-> 0, bound |-> 0, expected |-> "", actual |-> "",
     ptr |-> ZeroPtr, key |-> <<>>, val |-> <<>>]

\* A panic of the runtime: slice bounds out of range.
RuntimePanic == [NoRes EXCEPT !.kind = "runtime"]

panicOutOfBound(idx, bound) ==
    [NoRes EXCEPT !.kind = "IndexOutOfBound", !.idx = idx, !.bound = bound]

panicTypeMismatch(expected, actual) ==
    [NoRes EXCEPT !.kind = "TypeMismatch", !.expected = getTypeLiteral(expected),
                  !.actual = getTypeLiteral(actual)]

\* TRUE when checkType returns without a panic.
checkType(node, type_) == getType(node) = type_

\* An index check that lets idx = count through.
checkIdx_Lenient(node, idx) == idx <= getCount(node)

\* TRUE when checkIdx returns without a panic.
checkIdx(node, idx) == idx < getCount(node)

dataOffset == 8
childPtrLen == 8
kvOffsetLen == 2
keyLenOffset == 0
keyLenLen == 2
valueLenOffset == 2
valueLenLen == 2
\* A key taken to start where the value length is stored.
keyOffset_AtValueLen == valueLenOffset
keyOffset == 4

getData(node) == getSlice(whole(node), dataOffset, uint16(getSize(node) - dataOffset))

getChildPtr(node, idx) ==
    IF ~checkType(node, internal) THEN panicTypeMismatch(internal, getType(node))
    ELSE IF ~checkIdx(node, idx) THEN panicOutOfBound(idx, getCount(node))
    ELSE LET slot == getSlice(getData(node), uint16(idx * childPtrLen), childPtrLen)
         IN  IF ~slot.ok THEN RuntimePanic
             ELSE [NoRes EXCEPT !.kind = "ok", !.ptr = Uint64(node, slot)]

\* The node after the call and how the call ended.
setChildPtr(node, idx, ptr) ==
    IF ~checkType(node, internal)
    THEN [node |-> node, res |-> panicTypeMismatch(internal, getType(node))]
    ELSE IF ~checkIdx(node, idx)
    THEN [node |-> node, res |-> panicOutOfBound(idx, getCount(node))]
    ELSE LET slot == getSlice(getData(node), uint16(idx * childPtrLen), childPtrLen)
         IN  IF ~slot.ok THEN [node |-> node, res |-> RuntimePanic]
             ELSE [node |-> PutUint64(node, slot, ptr),
                   res |-> [NoRes EXCEPT !.kind = "ok"]]

getKV(node, idx) ==
    IF ~checkType(node, leaf) THEN panicTypeMismatch(leaf, getType(node))
    ELSE IF ~checkIdx(node, idx) THEN panicOutOfBound(idx, getCount(node))
    ELSE LET count == getCount(node)
             data == getData(node)
             kvOffsets == sliceTo(data, uint16(count * kvOffsetLen))
             entry == getSlice(kvOffsets, uint16(idx * kvOffsetLen), kvOffsetLen)
             kvPairs == sliceFrom(data, uint16(count * kvOffsetLen))
         IN  IF ~entry.ok \/ ~kvPairs.ok THEN RuntimePanic
             ELSE LET kvOffset == Uint16(node, entry)
                      kvPair == sliceFrom(kvPairs, kvOffset)
                      keyLenAt == getSlice(kvPair, keyLenOffset, keyLenLen)
                      valueLenAt == getSlice(kvPair, valueLenOffset, valueLenLen)
                  IN  IF ~keyLenAt.ok \/ ~valueLenAt.ok THEN RuntimePanic
                      ELSE LET keyLen == Uint16(node, keyLenAt)
                               valueLen == Uint16(node, valueLenAt)
                               pair == getSlice(kvPair, 0,
                                   uint16(keyLenLen + valueLenLen + keyLen + valueLen))
                               keyAt == getSlice(pair, keyOffset, keyLen)
                               valAt == getSlice(pair, uint16(keyOffset + keyLen), valueLen)
                           IN  IF ~keyAt.ok \/ ~valAt.ok THEN RuntimePanic
                               ELSE [NoRes EXCEPT !.kind = "ok",
                                                  !.key = bytesOf(node, keyAt),
                                                  !.val = bytesOf(node, valAt)]

\* The test helper getNode: a buffer of arbitrary bytes (here byte i is
\* seed + i), then the three header fields.
getNode(type_, count, size, seed) ==
    setSize(setCount(setType([i \in 1..PageCap |-> (seed + i) % 256], type_), count), size)

\* The test helper getKV: one packed pair, key_len | val_len | key | val.
packKV(kv) ==
    <<Len(kv.key) % 256, Len(kv.key) \div 256, Len(kv.val) % 256, Len(kv.val) \div 256>>
        \o kv.key \o kv.val

\* The bytes of the pairs from the i-th on, and the length of those before it.
RECURSIVE packFrom(_, _)
packFrom(kvs, i) == IF i > Len(kvs) THEN <<>> ELSE packKV(kvs[i]) \o packFrom(kvs, i + 1)

RECURSIVE packedBefore(_, _)
packedBefore(kvs, i) == IF i <= 1 THEN 0 ELSE Len(packKV(kvs[i - 1])) + packedBefore(kvs, i - 1)

\* The leaf the test TestGetKV assembles: header, one offset per pair
\* (the length of the pairs before it), the packed pairs.
encodeLeaf(kvs) ==
    LET kvPairsNum == Len(kvs)
        kvOffsets == [i \in 1..(kvOffsetLen * kvPairsNum) |->
                         LET at == packedBefore(kvs, (i + 1) \div 2)
                         IN  IF i % 2 = 1 THEN at % 256 ELSE at \div 256]
        size == headerLen + kvPairsNum * kvOffsetLen + Len(packFrom(kvs, 1))
        header == setSize(setCount(setType([i \in 1..headerLen |-> 0], leaf), kvPairsNum), size)
    IN  header \o kvOffsets \o packFrom(kvs, 1)

(* ------------------------------ state ---------------------------------- *)
\* st       the skip list under test
\* latest   latest[k]: what the most recent call on k passed: Never before
\*          any call, Nil after Delete(k), the value after Insert/Update
\* written  the keys some Insert/Update has been called on
\* rwMutex  st.rwMutex: the writer holding it (0: none) and the readers
\* pc, op   per thread: position inside the current call, and the call
\* local    per thread: the locals of update/Delete (bounds, node, layerNum, i)
\* seq      the list obtained by running the committed calls one at a time
\* result, expected   per thread: what its last Search returned, and what
\*          Search returns on seq at that moment
\* calls    number of calls issued so far
\* it       the flush consumer's iterator (NilIterator: none)
\* yielded  the keys `it` has produced since it was made
\* mtMutex  mt.rwMutex: the writer holding it (0: none) and the readers
\* mpc, mop per thread: position inside the current memtable call, and the call
\* mresult  per thread: what its last memtable.Get returned
\* mcalls   number of memtable calls issued so far
\* mseq     the memtable obtained by running the committed calls one at a time
\* mexpected  per thread: what its last memtable.Get returns on mseq at the
\*          moment it read
\* stMutex  the rwMutex of the generations' skip lists, which only GetSize,
\*          GetLen and IsEmpty take
\* page     the B+tree node buffer under test
\* bop      the last call made on `page`, with its idx and ptr arguments, and
\*          the number of calls made on `page` since it was built
\* bres     what that call gave
\* encoded  the pairs `page` was assembled from (`valid`: it still is that leaf)
\* mt       the memtable under test
\* mlatest  mlatest[k]: what the most recent memtable call on k passed:
\*          MNever before any call, NilBytes after Delete, else the value
VARIABLES st, latest, written, rwMutex, pc, op, local, seq, result, expected, calls,
          mt, mlatest, it, yielded, mtMutex, mpc, mop, mresult, mcalls,
          page, bop, bres, encoded, mseq, mexpected, stMutex

listVars == <<st, latest, written>>
threadVars == <<rwMutex, pc, op, local, seq, result, expected, calls>>
memVars == <<mt, mlatest>>
iterVars == <<it, yielded>>
\* What the calls on the skip list under test leave alone.
mtGhost == <<mseq, mexpected, stMutex>>
mtThreadVars == <<mtMutex, mpc, mop, mresult, mcalls, mtGhost>>
btVars == <<page, bop, bres, encoded>>
offList == <<memVars, iterVars, mtThreadVars, btVars>>
\* What the calls on the memtable leave alone.
offMem == <<listVars, threadVars, mtThreadVars, btVars>>
\* What the steps of a thread inside a memtable call leave alone.
offMemThreads == <<listVars, threadVars, iterVars, btVars>>
\* What the calls on the B+tree node leave alone.
offBt == <<listVars, threadVars, memVars, iterVars, mtThreadVars>>
vars == <<st, latest, written, rwMutex, pc, op, local, seq, result, expected, calls,
          mt, mlatest, it, yielded, mtMutex, mpc, mop, mresult, mcalls,
          page, bop, bres, encoded, mseq, mexpected, stMutex>>

Never == "never"
Threads == {1, 2}
NoThread == 0
NoOp == [name |-> "none", key |-> EmptyStr, val |-> Nil]
NoLocal == [l |-> <<>>, r |-> <<>>, ok |-> TRUE, node |-> NilPtr, layerNum |-> 0, i |-> 0]

sizeInRange(s) == s \in (0 - MaxUnder)..(MaxNodes + 1)

InitList ==
    /\ st = NewSkipList
    /\ latest = [k \in Keys |-> Never]
    /\ written = {}

InitThreads ==
    /\ rwMutex = [writer |-> NoThread, readers |-> {}]
    /\ pc = [t \in Threads |-> "idle"]
    /\ op = [t \in Threads |-> NoOp]
    /\ local = [t \in Threads |-> NoLocal]
    /\ seq = NewSkipList
    /\ result = [t \in Threads |-> Nil]
    /\ expected = [t \in Threads |-> Nil]
    /\ calls = 0

MNever == <<-2>>
MtKeys == {<<1>>, <<2>>}
MtVals == {<<1>>, <<2, 2>>}

InitMem ==
    /\ mt = NewMemtable
    /\ mlatest = [k \in MtKeys |-> MNever]

InitIter ==
    /\ it = NilIterator
    /\ yielded = <<>>

NoMtOp == [name |-> "none", key |-> EmptyStr, val |-> NilBytes]
NoMtResult == [val |-> NilBytes, ok |-> FALSE, panic |-> FALSE]

InitMtThreads ==
    /\ mtMutex = [writer |-> NoThread, readers |-> {}]
    /\ mpc = [t \in Threads |-> "idle"]
    /\ mop = [t \in Threads |-> NoMtOp]
    /\ mresult = [t \in Threads |-> NoMtResult]
    /\ mcalls = 0
    /\ mseq = NewMemtable
    /\ mexpected = [t \in Threads |-> NoMtResult]
    /\ stMutex = [writer |-> NoThread, readers |-> {}]

NoBtOp == [name |-> "none", idx |-> 0, ptr |-> ZeroPtr, n |-> 0]
NotEncoded == [valid |-> FALSE, kvs |-> <<>>]

\* A freshly made buffer: `make([]byte, n)` is all zeroes.
InitBt ==
    /\ page = [i \in 1..PageCap |-> 0]
    /\ bop = NoBtOp
    /\ bres = NoRes
    /\ encoded = NotEncoded

Init == InitList /\ InitThreads /\ InitMem /\ InitIter /\ InitMtThreads /\ InitBt

(* --------------------- sequential client of one list ------------------- *)
\* liftLayers is called only when no node was found.
layerChoices(list, key) == IF allocates(list, key) THEN liftLayers ELSE {1}

Insert(key, val) ==
    /\ allocates(st, key) => Len(st.nodes) < 2 + MaxNodes
    /\ \E layerNum \in layerChoices(st, key) : st' = update(st, key, val, layerNum)
    /\ sizeInRange(st'.size)
    /\ latest' = [latest EXCEPT ![key] = val]
    /\ written' = written \cup {key}
    /\ UNCHANGED <<threadVars, offList>>

Update(key, val) ==
    /\ allocates(st, key) => Len(st.nodes) < 2 + MaxNodes
    /\ \E layerNum \in layerChoices(st, key) : st' = update(st, key, val, layerNum)
    /\ sizeInRange(st'.size)
    /\ latest' = [latest EXCEPT ![key] = val]
    /\ written' = written \cup {key}
    /\ UNCHANGED <<threadVars, offList>>

Delete(key) ==
    /\ st' = delete(st, key)
    /\ sizeInRange(st'.size)
    /\ latest' = [latest EXCEPT ![key] = Nil]
    /\ UNCHANGED written
    /\ UNCHANGED <<threadVars, offList>>

Next ==
    \/ \E key \in Keys, val \in Vals : Insert(key, val)
    \/ \E key \in Keys, val \in Vals : Update(key, val)
    \/ \E key \in Keys : Delete(key)

Spec == Init /\ [][Next]_vars

\* Only Insert/Update calls are issued.
NextIns ==
    \/ \E key \in Keys, val \in Vals : Insert(key, val)
    \/ \E key \in Keys, val \in Vals : Update(key, val)

SpecIns == Init /\ [][NextIns]_vars

(* ------------------- concurrent clients of one list -------------------- *)
\* Calls issued by the threads, and the keys and values they pass.
MaxCalls == 3
ConcKeys == {<<1>>, <<2>>}
ConcVals == {"v1", Nil}

\* A Lock() that excludes nobody.
canLock_NoExclusion(m) == TRUE

\* rwMutex.Lock() returns only when no writer and no reader holds the lock.
canLock(m) == m.writer = NoThread /\ m.readers = {}

\* A read lock that is granted while a writer holds the lock.
canRLock_NoExclusion(m) == TRUE

\* rwMutex.RLock() returns only when no writer holds the lock.
canRLock(m) == m.writer = NoThread

\* A nil check that never fires.
isNilValue_Unchecked(val) == FALSE

\* Insert/Update: `if val == nil { panic("Nil value") }`.
isNilValue(val) == val = Nil

goto(t, label) == pc' = [pc EXCEPT ![t] = label]

CallInsert(t, key, val) ==
    /\ pc[t] = "idle" /\ calls < MaxCalls
    /\ op' = [op EXCEPT ![t] = [name |-> "Insert", key |-> key, val |-> val]]
    /\ calls' = calls + 1
    /\ goto(t, "check")
    /\ UNCHANGED <<offList, listVars, rwMutex, local, seq, result, expected>>

CallUpdate(t, key, val) ==
    /\ pc[t] = "idle" /\ calls < MaxCalls
    /\ op' = [op EXCEPT ![t] = [name |-> "Update", key |-> key, val |-> val]]
    /\ calls' = calls + 1
    /\ goto(t, "check")
    /\ UNCHANGED <<offList, listVars, rwMutex, local, seq, result, expected>>

CallDelete(t, key) ==
    /\ pc[t] = "idle" /\ calls < MaxCalls
    /\ op' = [op EXCEPT ![t] = [name |-> "Delete", key |-> key, val |-> Nil]]
    /\ calls' = calls + 1
    /\ goto(t, "lock")
    /\ UNCHANGED <<offList, listVars, rwMutex, local, seq, result, expected>>

CallSearch(t, key) ==
    /\ pc[t] = "idle" /\ calls < MaxCalls
    /\ op' = [op EXCEPT ![t] = [name |-> "Search", key |-> key, val |-> Nil]]
    /\ calls' = calls + 1
    /\ goto(t, "rlock")
    /\ UNCHANGED <<offList, listVars, rwMutex, local, seq, result, expected>>

\* Insert/Update, the nil check ahead of Lock().
NilCheck(t) ==
    /\ pc[t] = "check"
    /\ goto(t, IF isNilValue(op[t].val) THEN "panicked" ELSE "lock")
    /\ UNCHANGED <<offList, listVars, rwMutex, op, local, seq, result, expected, calls>>

Lock(t) ==
    /\ pc[t] = "lock"
    /\ canLock(rwMutex)
    /\ rwMutex' = [rwMutex EXCEPT !.writer = t]
    /\ goto(t, "search")
    /\ UNCHANGED <<offList, listVars, op, local, seq, result, expected, calls>>

\* update/Delete: searchBounds and searchWithBounds fill the locals.
SearchBoundsStep(t) ==
    /\ pc[t] = "search"
    /\ LET b == searchBounds(st, op[t].key)
       IN  /\ local' = [local EXCEPT ![t] =
                          [l |-> b.l, r |-> b.r, ok |-> b.ok,
                           node |-> IF b.ok THEN searchWithBounds(st, op[t].key, b.l, b.r)
                                    ELSE NilPtr,
                           layerNum |-> 0, i |-> 0]]
           /\ goto(t, IF ~b.ok THEN "unlock"
                      ELSE IF op[t].name = "Delete" THEN "delete" ELSE "update")
    /\ UNCHANGED <<offList, listVars, rwMutex, op, seq, result, expected, calls>>

\* update: `if node != nil { ...; node.val = val; return }`.
UpdateFound(t) ==
    /\ pc[t] = "update" /\ local[t].node # NilPtr
    /\ st' = updateFound(st, local[t].node, op[t].val)
    /\ seq' = update(seq, op[t].key, op[t].val, 1)
    /\ goto(t, "unlock")
    /\ UNCHANGED <<offList, latest, written, rwMutex, op, local, result, expected, calls>>

\* update: liftLayers and newNode.
NewNodeStep(t) ==
    /\ pc[t] = "update" /\ local[t].node = NilPtr
    /\ Len(st.nodes) < 2 + MaxNodes
    /\ \E layerNum \in liftLayers :
          /\ st' = [st EXCEPT !.nodes = Append(st.nodes, newNode(op[t].key, op[t].val, layerNum))]
          /\ local' = [local EXCEPT ![t].node = Len(st.nodes) + 1,
                                    ![t].layerNum = layerNum, ![t].i = 0]
    /\ goto(t, "splice")
    /\ UNCHANGED <<offList, latest, written, rwMutex, op, seq, result, expected, calls>>

\* update: one iteration of the splice loop.
SpliceStep(t) ==
    /\ pc[t] = "splice" /\ local[t].i < local[t].layerNum
    /\ st' = [st EXCEPT !.nodes = spliceLayer(st.nodes, local[t].node,
                                              local[t].l, local[t].r, local[t].i)]
    /\ local' = [local EXCEPT ![t].i = local[t].i + 1]
    /\ UNCHANGED <<offList, latest, written, rwMutex, pc, op, seq, result, expected, calls>>

\* update: `st.size += 1` after the loop; the call takes effect on seq.
SizeStep(t) ==
    /\ pc[t] = "splice" /\ local[t].i >= local[t].layerNum
    /\ st' = [st EXCEPT !.size = st.size + 1]
    /\ seq' = update(seq, op[t].key, op[t].val, local[t].layerNum)
    /\ goto(t, "unlock")
    /\ UNCHANGED <<offList, latest, written, rwMutex, op, local, result, expected, calls>>

\* Delete: return when no node was found, else tombstone and count down.
DeleteStep(t) ==
    /\ pc[t] = "delete"
    /\ st' = IF local[t].node = NilPtr THEN st ELSE deleteFound(st, local[t].node)
    /\ sizeInRange(st'.size)
    /\ seq' = delete(seq, op[t].key)
    /\ goto(t, "unlock")
    /\ UNCHANGED <<offList, latest, written, rwMutex, op, local, result, expected, calls>>

\* The deferred rwMutex.Unlock().
Unlock(t) ==
    /\ pc[t] = "unlock"
    /\ rwMutex' = [rwMutex EXCEPT !.writer = IF rwMutex.writer = t THEN NoThread
                                              ELSE rwMutex.writer]
    /\ local' = [local EXCEPT ![t] = NoLocal]
    /\ goto(t, "idle")
    /\ UNCHANGED <<offList, listVars, op, seq, result, expected, calls>>

RLock(t) ==
    /\ pc[t] = "rlock"
    /\ canRLock(rwMutex)
    /\ rwMutex' = [rwMutex EXCEPT !.readers = rwMutex.readers \cup {t}]
    /\ goto(t, "read")
    /\ UNCHANGED <<offList, listVars, op, local, seq, result, expected, calls>>

\* Search: st.search(key) and the value returned.
ReadStep(t) ==
    /\ pc[t] = "read"
    /\ result' = [result EXCEPT ![t] = Search(st, op[t].key)]
    /\ expected' = [expected EXCEPT ![t] = Search(seq, op[t].key)]
    /\ goto(t, "runlock")
    /\ UNCHANGED <<offList, listVars, rwMutex, op, local, seq, calls>>

\* The deferred rwMutex.RUnlock().
RUnlock(t) ==
    /\ pc[t] = "runlock"
    /\ rwMutex' = [rwMutex EXCEPT !.readers = rwMutex.readers \ {t}]
    /\ goto(t, "idle")
    /\ UNCHANGED <<offList, listVars, op, local, seq, result, expected, calls>>

NextConc ==
    \E t \in Threads :
        \/ \E key \in ConcKeys, val \in ConcVals : CallInsert(t, key, val)
        \/ \E key \in ConcKeys, val \in ConcVals : CallUpdate(t, key, val)
        \/ \E key \in ConcKeys : CallDelete(t, key)
        \/ \E key \in ConcKeys : CallSearch(t, key)
        \/ NilCheck(t)
        \/ Lock(t)
        \/ SearchBoundsStep(t)
        \/ UpdateFound(t)
        \/ NewNodeStep(t)
        \/ SpliceStep(t)
        \/ SizeStep(t)
        \/ DeleteStep(t)
        \/ Unlock(t)
        \/ RLock(t)
        \/ ReadStep(t)
        \/ RUnlock(t)

SpecConc == Init /\ [][NextConc]_vars

(* ------------------------ clients of the memtable ---------------------- *)
\* Generations kept at once, nodes all generations together may hold
\* besides their sentinels, and the cap on a generation's len counter.
MaxGens == 2
MtMaxNodes == 3
MaxLen == 3

RECURSIVE allocated(_, _)
\* Nodes held by generations i.. besides the sentinels.
allocated(skiplists, i) ==
    IF i > Len(skiplists) THEN 0
    ELSE (Len(skiplists[i].nodes) - 2) + allocated(skiplists, i + 1)

mem_layerChoices(list, key) == IF mem_allocates(list, key) THEN mem_liftLayers ELSE {1}

\* The bounds of the exploration, on the generation list a write produces.
withinMemBounds(m0, m1, key) ==
    /\ Len(m0.skiplists) <= MaxGens
    /\ allocated(m1.skiplists, 1) <= MtMaxNodes
    /\ m1.skiplists[1].len <= MaxLen

\* memtable.Update with a non-nil value.
MtUpdate(key, val) ==
    /\ \E layerNum \in mem_layerChoices(rotated(mt).skiplists[1], key) :
          mt' = writeFirst(rotated(mt), key, val, layerNum)
    /\ withinMemBounds(rotated(mt), mt', key)
    /\ mlatest' = [mlatest EXCEPT ![key] = val]
    /\ UNCHANGED <<offMem, iterVars>>

\* memtable.Delete.
MtDelete(key) ==
    /\ \E layerNum \in mem_layerChoices(rotated(mt).skiplists[1], key) :
          mt' = writeFirst(rotated(mt), key, NilBytes, layerNum)
    /\ withinMemBounds(rotated(mt), mt', key)
    /\ mlatest' = [mlatest EXCEPT ![key] = NilBytes]
    /\ UNCHANGED <<offMem, iterVars>>

\* The flush consumer drops the oldest generation once getLastIterator gave
\* it an iterator, that is with at least two generations.
PopSkiplist ==
    /\ Len(mt.skiplists) > 1
    /\ mt' = popSkiplist(mt)
    /\ UNCHANGED <<mlatest, offMem, iterVars>>

NextMem ==
    \/ \E key \in MtKeys, val \in MtVals : MtUpdate(key, val)
    \/ \E key \in MtKeys : MtDelete(key)
    \/ PopSkiplist

SpecMem == Init /\ [][NextMem]_vars

\* Only Update/Delete calls are issued: no generation is ever dropped.
NextMemWrites ==
    \/ \E key \in MtKeys, val \in MtVals : MtUpdate(key, val)
    \/ \E key \in MtKeys : MtDelete(key)

SpecMemWrites == Init /\ [][NextMemWrites]_vars

(* ------------------- the flush consumer's iterator --------------------- *)
\* `it := mt.getLastIterator()`
GetLastIterator ==
    /\ it' = getLastIterator(mt)
    /\ yielded' = <<>>
    /\ UNCHANGED <<memVars, offMem>>

\* One turn of `for it.hasNext() { it.getKey(); it.next() }`. A walk that
\* has produced more keys than the generation has nodes is cut off.
IterNext ==
    /\ ~it.nil
    /\ hasNext(it)
    /\ Len(yielded) < Len(it.st.nodes)
    /\ yielded' = Append(yielded, getKey(it))
    /\ it' = next(it)
    /\ UNCHANGED <<memVars, offMem>>

\* The walk is over: the consumer drops the generation it has walked
\* (`mt.popSkiplist()`) and lets go of the iterator.
Flushed ==
    /\ ~it.nil
    /\ ~hasNext(it)
    /\ mt' = popSkiplist(mt)
    /\ it' = NilIterator
    /\ yielded' = <<>>
    /\ UNCHANGED <<mlatest, offMem>>

\* A sequential client: writes happen while no walk is under way.
NextIter ==
    \/ it.nil /\ \E key \in MtKeys, val \in MtVals : MtUpdate(key, val)
    \/ it.nil /\ \E key \in MtKeys : MtDelete(key)
    \/ GetLastIterator
    \/ IterNext
    \/ Flushed

SpecIter == Init /\ [][NextIter]_vars

(* ------------------- concurrent clients of one memtable ----------------- *)
MaxMtCalls == 3

\* A nil check that never fires.
isNilVal_Never(val) == FALSE

\* memtable.Update: `if val == nil { panic("Nil val") }`.
isNilVal(val) == val = NilBytes

\* GetSize taking the lock of the memtable.
getSizeMutex_OfMemtable == mtMutex

\* The lock `mt.skiplists[0].GetSize()` takes: the skip list's own.
getSizeMutex == stMutex

mgoto(t, label) == mpc' = [mpc EXCEPT ![t] = label]

MtCallUpdate(t, key, val) ==
    /\ mpc[t] = "idle" /\ mcalls < MaxMtCalls
    /\ mop' = [mop EXCEPT ![t] = [name |-> "Update", key |-> key, val |-> val]]
    /\ mcalls' = mcalls + 1
    /\ mgoto(t, "lock")
    /\ UNCHANGED <<memVars, mtMutex, mresult, mtGhost, offMemThreads>>

MtCallDelete(t, key) ==
    /\ mpc[t] = "idle" /\ mcalls < MaxMtCalls
    /\ mop' = [mop EXCEPT ![t] = [name |-> "Delete", key |-> key, val |-> NilBytes]]
    /\ mcalls' = mcalls + 1
    /\ mgoto(t, "lock")
    /\ UNCHANGED <<memVars, mtMutex, mresult, mtGhost, offMemThreads>>

MtCallGet(t, key) ==
    /\ mpc[t] = "idle" /\ mcalls < MaxMtCalls
    /\ mop' = [mop EXCEPT ![t] = [name |-> "Get", key |-> key, val |-> NilBytes]]
    /\ mcalls' = mcalls + 1
    /\ mgoto(t, "rlock")
    /\ UNCHANGED <<memVars, mtMutex, mresult, mtGhost, offMemThreads>>

\* `mt.rwMutex.Lock()`; Update goes on to its nil check, Delete has none.
MtLock(t) ==
    /\ mpc[t] = "lock"
    /\ canLock(mtMutex)
    /\ mtMutex' = [mtMutex EXCEPT !.writer = t]
    /\ mgoto(t, IF mop[t].name = "Update" THEN "check" ELSE "rotate")
    /\ UNCHANGED <<memVars, mop, mresult, mcalls, mtGhost, offMemThreads>>

MtNilCheck(t) ==
    /\ mpc[t] = "check"
    /\ mgoto(t, IF isNilVal(mop[t].val) THEN "unwind" ELSE "rotate")
    /\ UNCHANGED <<memVars, mtMutex, mop, mresult, mcalls, mtGhost, offMemThreads>>

\* The panic unwinds the frame: the deferred `mt.rwMutex.Unlock()` runs.
MtUnwind(t) ==
    /\ mpc[t] = "unwind"
    /\ mtMutex' = [mtMutex EXCEPT !.writer = IF mtMutex.writer = t THEN NoThread
                                              ELSE mtMutex.writer]
    /\ mgoto(t, "panicked")
    /\ UNCHANGED <<memVars, mop, mresult, mcalls, mtGhost, offMemThreads>>

\* The rotation test and newSkiplist. With a generation present the test
\* calls its GetSize, which takes and releases that generation's own lock
\* for reading.
MtRotate(t) ==
    /\ mpc[t] = "rotate"
    /\ Len(mt.skiplists) = 0 \/ canRLock(getSizeMutex)
    /\ mt' = rotated(mt)
    /\ mgoto(t, "write")
    /\ UNCHANGED <<mlatest, mtMutex, mop, mresult, mcalls, mtGhost, offMemThreads>>

\* `mt.skiplists[0].Update(key, val)`; the call takes effect here.
MtWrite(t) ==
    /\ mpc[t] = "write"
    /\ \E layerNum \in mem_layerChoices(mt.skiplists[1], mop[t].key) :
          /\ mt' = writeFirst(mt, mop[t].key, mop[t].val, layerNum)
          /\ mseq' = writeFirst(rotated(mseq), mop[t].key, mop[t].val, layerNum)
    /\ mlatest' = [mlatest EXCEPT ![mop[t].key] = mop[t].val]
    /\ mgoto(t, "unlock")
    /\ UNCHANGED <<mtMutex, mop, mresult, mcalls, mexpected, stMutex, offMemThreads>>

\* The deferred `mt.rwMutex.Unlock()` on return.
MtUnlock(t) ==
    /\ mpc[t] = "unlock"
    /\ mtMutex' = [mtMutex EXCEPT !.writer = IF mtMutex.writer = t THEN NoThread
                                              ELSE mtMutex.writer]
    /\ mgoto(t, "idle")
    /\ UNCHANGED <<memVars, mop, mresult, mcalls, mtGhost, offMemThreads>>

MtRLock(t) ==
    /\ mpc[t] = "rlock"
    /\ canRLock(mtMutex)
    /\ mtMutex' = [mtMutex EXCEPT !.readers = mtMutex.readers \cup {t}]
    /\ mgoto(t, "read")
    /\ UNCHANGED <<memVars, mop, mresult, mcalls, mtGhost, offMemThreads>>

\* The loop of memtable.Get over the generations.
MtRead(t) ==
    /\ mpc[t] = "read"
    /\ mresult' = [mresult EXCEPT ![t] = memtable_Get(mt, mop[t].key)]
    /\ mexpected' = [mexpected EXCEPT ![t] = memtable_Get(mseq, mop[t].key)]
    /\ mgoto(t, "runlock")
    /\ UNCHANGED <<memVars, mtMutex, mop, mcalls, mseq, stMutex, offMemThreads>>

MtRUnlock(t) ==
    /\ mpc[t] = "runlock"
    /\ mtMutex' = [mtMutex EXCEPT !.readers = mtMutex.readers \ {t}]
    /\ mgoto(t, "idle")
    /\ UNCHANGED <<memVars, mop, mresult, mcalls, mtGhost, offMemThreads>>

NextMemConc ==
    \/ \E t \in Threads, key \in MtKeys, val \in MtVals \cup {NilBytes} :
          MtCallUpdate(t, key, val)
    \/ \E t \in Threads, key \in MtKeys : MtCallDelete(t, key)
    \/ \E t \in Threads, key \in MtKeys : MtCallGet(t, key)
    \/ \E t \in Threads : MtLock(t)
    \/ \E t \in Threads : MtNilCheck(t)
    \/ \E t \in Threads : MtUnwind(t)
    \/ \E t \in Threads : MtRotate(t)
    \/ \E t \in Threads : MtWrite(t)
    \/ \E t \in Threads : MtUnlock(t)
    \/ \E t \in Threads : MtRLock(t)
    \/ \E t \in Threads : MtRead(t)
    \/ \E t \in Threads : MtRUnlock(t)

SpecMemConc == Init /\ [][NextMemConc]_vars

(* ----------------------- clients of one B+tree node --------------------- *)
MaxCount == 2
MaxPairs == 2
MaxBtCalls == 2

NodeTypes == {internal, leaf, 2}
Counts == 0..MaxCount
Idxs == 0..(MaxCount + 1)
Sizes == {0, dataOffset, dataOffset + childPtrLen, dataOffset + MaxCount * childPtrLen,
          PageCap, PageCap + 1}
Seeds == {0, 250}
Ptrs == {<<1, 0, 0, 0>>, <<513, 2, 3, 65535>>}
KVBytes == {<<>>, <<7>>, <<1, 2>>}
Pairs == [key : KVBytes, val : KVBytes]
PairLists == UNION {[1..n -> Pairs] : n \in 0..MaxPairs}

\* The buffer is built before any call is made on it.
built(name) ==
    /\ bop = NoBtOp
    /\ bop' = [name |-> name, idx |-> 0, ptr |-> ZeroPtr, n |-> 0]

\* One more call on the buffer.
called(name, idx, ptr) ==
    /\ bop.n < MaxBtCalls
    /\ bop' = [name |-> name, idx |-> idx, ptr |-> ptr, n |-> bop.n + 1]

BtGetNode(type_, count, size, seed) ==
    /\ built("getNode")
    /\ page' = getNode(type_, count, size, seed)
    /\ bres' = NoRes
    /\ encoded' = NotEncoded
    /\ UNCHANGED offBt

BtGetChildPtr(idx) ==
    /\ called("getChildPtr", idx, ZeroPtr)
    /\ bres' = getChildPtr(page, idx)
    /\ UNCHANGED <<page, encoded, offBt>>

BtSetChildPtr(idx, ptr) ==
    /\ called("setChildPtr", idx, ptr)
    /\ page' = setChildPtr(page, idx, ptr).node
    /\ bres' = setChildPtr(page, idx, ptr).res
    /\ encoded' = IF page' = page THEN encoded ELSE NotEncoded
    /\ UNCHANGED offBt

BtGetKV(idx) ==
    /\ called("getKV", idx, ZeroPtr)
    /\ bres' = getKV(page, idx)
    /\ UNCHANGED <<page, encoded, offBt>>

\* The node is assembled from a list of pairs, as TestGetKV does.
BtEncodeLeaf(kvs) ==
    /\ built("encodeLeaf")
    /\ page' = encodeLeaf(kvs)
    /\ bres' = NoRes
    /\ encoded' = [valid |-> TRUE, kvs |-> kvs]
    /\ UNCHANGED offBt

NextBt ==
    \/ \E type_ \in NodeTypes, count \in Counts, size \in Sizes, seed \in Seeds :
          BtGetNode(type_, count, size, seed)
    \/ \E idx \in Idxs : BtGetChildPtr(idx)
    \/ \E idx \in Idxs, ptr \in Ptrs : BtSetChildPtr(idx, ptr)
    \/ \E idx \in Idxs : BtGetKV(idx)
    \/ \E kvs \in PairLists : BtEncodeLeaf(kvs)

SpecBt == Init /\ [][NextBt]_vars

(* ------------- one call per thread, under fair scheduling --------------- *)
\* What a thread does inside a call on the skip list, once the call is made.
StepConc(t) ==
    \/ NilCheck(t)
    \/ Lock(t)
    \/ SearchBoundsStep(t)
    \/ UpdateFound(t)
    \/ NewNodeStep(t)
    \/ SpliceStep(t)
    \/ SizeStep(t)
    \/ DeleteStep(t)
    \/ Unlock(t)
    \/ RLock(t)
    \/ ReadStep(t)
    \/ RUnlock(t)

\* What a thread does inside a call on the memtable, once the call is made.
StepMem(t) ==
    \/ MtLock(t)
    \/ MtNilCheck(t)
    \/ MtUnwind(t)
    \/ MtRotate(t)
    \/ MtWrite(t)
    \/ MtUnlock(t)
    \/ MtRLock(t)
    \/ MtRead(t)
    \/ MtRUnlock(t)

\* A thread that has made no call yet.
fresh(t) == op[t].name = "none" /\ mop[t].name = "none"

\* Each thread makes one call, on the skip list or on the memtable.
NextLive ==
    \E t \in Threads :
        \/ fresh(t) /\ \E key \in ConcKeys, val \in ConcVals : CallInsert(t, key, val)
        \/ fresh(t) /\ \E key \in ConcKeys, val \in ConcVals : CallUpdate(t, key, val)
        \/ fresh(t) /\ \E key \in ConcKeys : CallDelete(t, key)
        \/ fresh(t) /\ \E key \in ConcKeys : CallSearch(t, key)
        \/ fresh(t) /\ \E key \in MtKeys, val \in MtVals \cup {NilBytes} :
                          MtCallUpdate(t, key, val)
        \/ fresh(t) /\ \E key \in MtKeys : MtCallDelete(t, key)
        \/ fresh(t) /\ \E key \in MtKeys : MtCallGet(t, key)
        \/ StepConc(t)
        \/ StepMem(t)

\* The positions of a thread inside a call on the skip list and on the
\* memtable.
ConcLabels == {"idle", "check", "panicked", "lock", "search", "update", "splice",
               "delete", "unlock", "rlock", "read", "runlock"}
MtLabels == {"idle", "lock", "check", "unwind", "panicked", "rotate", "write",
             "unlock", "rlock", "read", "runlock"}

\* Thread t is inside a call on the skip list and its next step can be
\* taken: Lock() and RLock() wait for the lock, every other statement runs.
\* This is the enabling condition of StepConc(t), guard by guard.
ready(t) ==
    /\ pc[t] \notin {"idle", "panicked"}
    /\ pc[t] = "lock" => canLock(rwMutex)
    /\ pc[t] = "rlock" => canRLock(rwMutex)
    /\ (pc[t] = "update" /\ local[t].node = NilPtr) => Len(st.nodes) < 2 + MaxNodes
    /\ pc[t] = "delete" =>
          sizeInRange(IF local[t].node = NilPtr THEN st.size ELSE st.size - 1)

\* The same for a call on the memtable: Lock(), RLock() and the RLock()
\* inside the generation's GetSize wait, every other statement runs. This
\* is the enabling condition of StepMem(t), guard by guard.
mready(t) ==
    /\ mpc[t] \notin {"idle", "panicked"}
    /\ mpc[t] = "lock" => canLock(mtMutex)
    /\ mpc[t] = "rlock" => canRLock(mtMutex)
    /\ mpc[t] = "rotate" => (Len(mt.skiplists) = 0 \/ canRLock(getSizeMutex))

\* Thread t leaves the statement it is at.
Advance(t) ==
    ready(t) /\ \E label \in ConcLabels \ {pc[t]} : pc' = [pc EXCEPT ![t] = label]

MtAdvance(t) ==
    mready(t) /\ \E label \in MtLabels \ {mpc[t]} : mpc' = [mpc EXCEPT ![t] = label]

\* A goroutine that can run does run; sync.RWMutex grants a waiting Lock or
\* RLock once the lock is free. The condition is written on the thread's
\* position: a thread whose next step stays possible does not rest at the
\* same statement for ever.
FairLive == \A t \in Threads : WF_pc(Advance(t)) /\ WF_mpc(MtAdvance(t))

SpecLive == Init /\ [][NextLive]_vars /\ FairLive

liveKeys == {k \in Keys : latest[k] \in Vals}

NoPanic == \A k \in Keys : search(st, k) # -1

(* ------------------------------ claims --------------------------------- *)
\* C1: after Insert/Update calls only, Search of every written key returns
\* the value of the most recent Insert/Update of that key.
C1_SearchReturnsLatestWrite ==
    \A k \in Keys : latest[k] \in Vals => Search(st, k) = latest[k]

\* C2: after any Insert/Update/Delete sequence Search(k) returns the current
\* value of k: the latest written value when no Delete(k) followed, nil when
\* the latest call on k was Delete, nil (not-found) when k was never written.
C2_SearchReturnsCurrent ==
    \A k \in Keys :
        /\ latest[k] \in Vals => Search(st, k) = latest[k]
        /\ latest[k] = Nil => Search(st, k) = Nil
        /\ latest[k] = Never => search(st, k) = NilPtr

\* C3: Delete(key) makes Search(key) return nil and lowers the live count by
\* exactly 1 when key was live, by 0 when it was absent or tombstoned.
C3_DeleteEffect ==
    [][\A k \in Keys :
          Delete(k) =>
             /\ Search(st', k) = Nil
             /\ GetSize(st') = GetSize(st) - (IF k \in liveKeys THEN 1 ELSE 0)]_vars

\* C4: Insert/Update(k, v) on a tombstoned k (written, then deleted) raises
\* the live count by exactly 1 and makes Search(k) return v.
C4_ReviveTombstoned ==
    [][\A k \in Keys, v \in Vals :
          (k \in written /\ latest[k] = Nil /\ (Insert(k, v) \/ Update(k, v))) =>
             /\ GetSize(st) # -1
             /\ GetSize(st') = GetSize(st) + 1
             /\ Search(st', k) = v]_vars

\* C5: GetSize() is the number of keys whose most recent call was an
\* Insert/Update, and IsEmpty() holds exactly when that number is 0.
C5_SizeCountsLiveKeys ==
    /\ GetSize(st) = Cardinality(liveKeys)
    /\ IsEmpty(st) <=> Cardinality(liveKeys) = 0

\* C6: calls of concurrent threads take effect one at a time: whenever no
\* writer holds the lock the list equals the list built by running the
\* committed calls sequentially in commit order, and every Search returned
\* what it returns on that sequential list.
C6_Linearizable ==
    /\ rwMutex.writer = NoThread => st = seq
    /\ \A t \in Threads : result[t] = expected[t]

\* Both threads have completed calls, two nodes were spliced in and a Search
\* has returned a stored value.
C6_Witness ==
    /\ calls = MaxCalls
    /\ \A t \in Threads : pc[t] = "idle" /\ op[t].name # "none"
    /\ Len(st.nodes) = 4
    /\ \E t \in Threads : op[t].name = "Search" /\ result[t] = "v1"

\* C7: Insert/Update with a nil value panics, and the panicking call neither
\* takes the lock nor changes a node, a link or the live count.
C7_NilValuePanics ==
    [][\A t \in Threads :
          /\ (pc[t] = "check" /\ op[t].val = Nil) => pc'[t] \in {"check", "panicked"}
          /\ (pc[t] = "check" /\ pc'[t] = "panicked") => (st' = st /\ rwMutex' = rwMutex)
          /\ pc'[t] = "panicked" =>
                (rwMutex'.writer # t /\ t \notin rwMutex'.readers)]_vars

\* A thread has panicked on a nil value while the list holds a node.
C7_Witness ==
    \E t \in Threads :
        /\ pc[t] = "panicked" /\ op[t].val = Nil
        /\ op[t].name \in {"Insert", "Update"}
        /\ Len(st.nodes) > 2

\* C8: once Delete(k) was the latest memtable write on k, Get(k) does not
\* return a non-nil value: the tombstone in the newer generation shadows
\* whatever older generations hold for k.
C8_TombstoneShadowsOlder ==
    \A k \in MtKeys : mlatest[k] = NilBytes => memtable_Get(mt, k).val = NilBytes

overflowCase(k, v) ==
    /\ Len(mt.skiplists) = 1
    /\ Len(mt.skiplists[1].nodes) = 3
    /\ LET g  == mt.skiplists[1]
           k1 == g.nodes[3]
       IN  /\ k1.val # NilBytes /\ k1.key # k
           /\ mlatest[k1.key] = k1.val
           /\ g.size = Len(k1.key) + byteLen(k1.val)
           /\ uLess(g.size, skipListThreshold)
           /\ uLess(skipListThreshold, g.size + Len(k) + byteLen(v))

C11_ReadYourWrites ==
    \A k \in MtKeys :
        /\ mlatest[k] \in MtVals =>
              (memtable_Get(mt, k).ok /\ memtable_Get(mt, k).val = mlatest[k])
        /\ mlatest[k] = NilBytes => memtable_Get(mt, k).val = NilBytes

\* C12: getLastIterator gives an iterator exactly when at least two
\* generations exist, and the iterator then stands on the first node of the
\* generation at the last index, which is never index 0; otherwise it gives
\* no iterator.
C12_LastIteratorOnlyWithTwoGenerations ==
    [][GetLastIterator =>
         /\ it'.nil <=> Len(mt.skiplists) <= 1
         /\ ~it'.nil =>
               /\ it'.gen = Len(mt.skiplists)
               /\ it'.gen # 1
               /\ it'.st = mt.skiplists[Len(mt.skiplists)]
               /\ it'.cursor = it'.st.nodes[it'.st.head].nexts[1]]_vars

\* An iterator on the oldest of at least two generations has been produced.
C12_Witness == ~it.nil /\ it.gen >= 2 /\ it.st = mt.skiplists[Len(mt.skiplists)]

\* C13: the keys the oldest-generation iterator yields are strictly
\* ascending, the walk takes no more turns than the generation has nodes, and
\* when hasNext turns false the cursor is the tail sentinel and every key with
\* a node in the generation has been yielded exactly once.
C13_IteratorAscendingComplete ==
    ~it.nil =>
        /\ \A i \in 1..(Len(yielded) - 1) : strLess(yielded[i], yielded[i + 1])
        /\ Len(yielded) <= Len(it.st.nodes) - 2
        /\ ~hasNext(it) =>
              /\ it.cursor = it.st.tail
              /\ Len(yielded) = Len(it.st.nodes) - 2
              /\ {yielded[i] : i \in 1..Len(yielded)}
                    = {it.st.nodes[n].key : n \in 3..Len(it.st.nodes)}

\* C14: Memtable.Update(key, nil) ends in a panic and in nothing else; from
\* its nil check to the end of the panic the memtable (generations, nodes)
\* is unchanged; the panicked thread holds the memtable's lock neither as
\* writer nor as reader, so that the lock is free whenever no thread is
\* between its lock and its unlock.
C14_NilValPanicsCleanly ==
    [][/\ \A t \in Threads :
            /\ (mpc[t] = "check" /\ mop[t].val = NilBytes) =>
                  mpc'[t] \in {"check", "unwind"}
            /\ (mpc[t] \in {"check", "unwind"} /\ mpc'[t] \in {"unwind", "panicked"}) =>
                  mt' = mt
            /\ mpc'[t] = "panicked" =>
                  (mtMutex'.writer # t /\ t \notin mtMutex'.readers)
       /\ (\A t \in Threads : mpc'[t] \in {"idle", "panicked", "lock", "rlock"}) =>
             canLock(mtMutex')]_vars

\* A thread has panicked on Update(key, nil) on a memtable that holds a
\* node, and the other thread has taken the lock afterwards.
C14_Witness ==
    \E t \in Threads, u \in Threads :
        /\ mpc[t] = "panicked" /\ mop[t].name = "Update" /\ mop[t].val = NilBytes
        /\ Len(mt.skiplists) > 0
        /\ u # t /\ mtMutex.writer = u

\* The header fields as the page layout lays them out: three little-endian
\* 16-bit numbers at offsets 0, 2 and 4.
typeField(node) == node[1] + 256 * node[2]
countField(node) == node[3] + 256 * node[4]
sizeField(node) == node[5] + 256 * node[6]

\* C15: getChildPtr/setChildPtr on a page that is not internal, and getKV on
\* a page that is not a leaf, end in a type-mismatch panic whatever idx is;
\* on a page of the right type they end in an index-out-of-bound panic
\* exactly when idx >= count, and that panic carries idx and count; a call
\* that ends in a panic leaves the buffer as it was.
C15_TypeThenIndexChecks ==
    [][bop'.name \in {"getChildPtr", "setChildPtr", "getKV"} =>
         LET wanted == IF bop'.name = "getKV" THEN leaf ELSE internal
         IN  /\ typeField(page) # wanted => bres'.kind = "TypeMismatch"
             /\ typeField(page) = wanted =>
                   (bres'.kind = "IndexOutOfBound" <=> bop'.idx >= countField(page))
             /\ bres'.kind = "IndexOutOfBound" =>
                   (bres'.idx = bop'.idx /\ bres'.bound = countField(page))
             /\ bres'.kind # "ok" => page' = page]_vars

\* setChildPtr on a leaf with an index past the count ended in the
\* type-mismatch panic.
C15_Witness ==
    /\ bop.name = "setChildPtr" /\ bres.kind = "TypeMismatch"
    /\ typeField(page) = leaf /\ bop.idx >= countField(page)

\* C16: on a leaf assembled from N pairs (header, N offsets, packed pairs,
\* size = bytes used) getKV(i) gives, for every i < N, the key bytes and the
\* value bytes of the i-th pair.
C16_LeafRoundTrip ==
    encoded.valid =>
        /\ \A i \in 1..Len(encoded.kvs) :
              /\ getKV(page, i - 1).kind = "ok"
              /\ getKV(page, i - 1).key = encoded.kvs[i].key
              /\ getKV(page, i - 1).val = encoded.kvs[i].val
        /\ (bop.name = "getKV" /\ bop.idx < Len(encoded.kvs)) =>
              /\ bres.key = encoded.kvs[bop.idx + 1].key
              /\ bres.val = encoded.kvs[bop.idx + 1].val

\* getKV(1) has read the second of two different pairs back.
C16_Witness ==
    /\ encoded.valid /\ Len(encoded.kvs) = 2
    /\ encoded.kvs[1] # encoded.kvs[2]
    /\ bop.name = "getKV" /\ bop.idx = 1 /\ bres.kind = "ok"
    /\ bres.key = encoded.kvs[2].key /\ bres.key # <<>>
    /\ bres.val = encoded.kvs[2].val /\ bres.val # <<>>

\* C17: on an internal page with idx < count and 8 + 8*count <= size <= the
\* buffer's capacity, setChildPtr(idx, p) succeeds, getChildPtr(idx) then
\* gives p, the header fields type, count and size are what they were, and so
\* is getChildPtr(j) for every other j < count.
C17_ChildPtrFrame ==
    [][(/\ bop'.name = "setChildPtr"
        /\ typeField(page) = internal
        /\ bop'.idx < countField(page)
        /\ 8 + 8 * countField(page) <= sizeField(page)
        /\ sizeField(page) <= Len(page)) =>
          /\ bres'.kind = "ok"
          /\ getChildPtr(page', bop'.idx).kind = "ok"
          /\ getChildPtr(page', bop'.idx).ptr = bop'.ptr
          /\ typeField(page') = typeField(page)
          /\ countField(page') = countField(page)
          /\ sizeField(page') = sizeField(page)
          /\ \A j \in 0..(countField(page) - 1) :
                j # bop'.idx => getChildPtr(page', j) = getChildPtr(page, j)]_vars

\* setChildPtr(1, p) has stored p in the second of two slots.
C17_Witness ==
    /\ bop.name = "setChildPtr" /\ bop.idx = 1 /\ bres.kind = "ok"
    /\ typeField(page) = internal /\ countField(page) = 2
    /\ 8 + 8 * countField(page) <= sizeField(page) /\ sizeField(page) <= Len(page)
    /\ bop.ptr = <<513, 2, 3, 65535>>
    /\ getChildPtr(page, 1).ptr = bop.ptr

\* The nodes met from `cur` on along the links of layer i, up to the tail
\* sentinel (or a nil link); `fuel` bounds the walk.
RECURSIVE linkedFrom(_, _, _, _)
linkedFrom(list, i, cur, fuel) ==
    IF cur = NilPtr \/ cur = list.tail \/ fuel = 0 THEN <<>>
    ELSE <<cur>> \o linkedFrom(list, i, list.nodes[cur].nexts[i + 1], fuel - 1)

\* The nodes strictly between head and tail along layer i.
linked(list, i) ==
    linkedFrom(list, i, list.nodes[list.head].nexts[i + 1], Len(list.nodes))

\* a is b with some elements left out.
RECURSIVE isSubseq(_, _)
isSubseq(a, b) ==
    IF a = <<>> THEN TRUE
    ELSE IF b = <<>> THEN FALSE
    ELSE IF Head(a) = Head(b) THEN isSubseq(Tail(a), Tail(b))
    ELSE isSubseq(a, Tail(b))

\* C18: in every state reached by Insert/Update/Delete the keys along the
\* level-0 links from head to tail are strictly ascending, and the nodes
\* linked at a level L > 0 are a subsequence of those linked at level L-1.
C18_StructuralInvariant ==
    /\ \A n \in 1..(Len(linked(st, 0)) - 1) :
          strLess(st.nodes[linked(st, 0)[n]].key, st.nodes[linked(st, 0)[n + 1]].key)
    /\ \A L \in 1..(maxHeight - 1) : isSubseq(linked(st, L), linked(st, L - 1))

\* C19: a node that is reachable from head along the level-0 links stays
\* reachable after every Insert/Update/Delete, and Delete changes no link
\* and no key.
C19_NodesNeverUnlinked ==
    [][/\ \A n \in 3..Len(st.nodes) :
            (\E a \in 1..Len(linked(st, 0)) : linked(st, 0)[a] = n) =>
               (\E b \in 1..Len(linked(st', 0)) : linked(st', 0)[b] = n)
       /\ \A k \in Keys :
            Delete(k) =>
               /\ Len(st'.nodes) = Len(st.nodes)
               /\ \A n \in 1..Len(st.nodes) :
                     /\ st'.nodes[n].nexts = st.nodes[n].nexts
                     /\ st'.nodes[n].key = st.nodes[n].key]_vars

liveNodes(list) == {n \in 3..Len(list.nodes) : list.nodes[n].val # NilBytes}

RECURSIVE liveBytesFrom(_, _)
liveBytesFrom(list, n) ==
    IF n > Len(list.nodes) THEN 0
    ELSE (IF n \in liveNodes(list)
          THEN Len(list.nodes[n].key) + Len(list.nodes[n].val) ELSE 0)
         + liveBytesFrom(list, n + 1)

\* C21: in every state reached by Update/Delete the size of each generation
\* is the sum of len(key) + len(value) over its entries that are not
\* tombstoned.
C21_SizeIsLiveBytes ==
    \A i \in 1..Len(mt.skiplists) :
        mem_GetSize(mt.skiplists[i]) = liveBytesFrom(mt.skiplists[i], 3)

\* C22: in every state reached by Update/Delete the len of each generation
\* is the number of its nodes that hold a non-nil value.
C22_LenCountsLiveNodes ==
    \A i \in 1..Len(mt.skiplists) :
        mem_GetLen(mt.skiplists[i]) = Cardinality(liveNodes(mt.skiplists[i]))

\* C23: a rotation and the write that triggers it take effect together:
\* whenever a Get holds the lock for reading, or no writer holds it, the
\* generation list is the one built by running the committed writes one
\* at a time (never a fresh generation without its write), and every Get
\* returned what it returns on that list, which holds every write that
\* returned before the Get started.
C23_RotationAtomicWithWrite ==
    /\ (mtMutex.writer = NoThread \/ mtMutex.readers # {}) => mt = mseq
    /\ \A t \in Threads : mresult[t] = mexpected[t]

\* A Get has read, after a write that rotated, the entry that write put in
\* the new generation.
C23_Witness ==
    \E t \in Threads :
        /\ mop[t].name = "Get" /\ mpc[t] \in {"runlock", "idle"}
        /\ Len(mt.skiplists) = 2
        /\ mresult[t].ok /\ mresult[t].val \in MtVals
        /\ mem_Get(mt.skiplists[1], mop[t].key) > 2
        /\ mresult[t].val = mt.skiplists[1].nodes[mem_Get(mt.skiplists[1], mop[t].key)].val

\* C24: under fair scheduling every call on the skip list and on the
\* memtable comes to its end (return or nil-value panic), and whenever no
\* thread is inside a call no lock is held: not the skip list's, not the
\* memtable's, not the one GetSize takes on a generation while the memtable's
\* lock is held.
C24_LocksReleasedCallsComplete ==
    /\ \A t \in Threads : (pc[t] # "idle") ~> (pc[t] \in {"idle", "panicked"})
    /\ \A t \in Threads : (mpc[t] # "idle") ~> (mpc[t] \in {"idle", "panicked"})
    /\ []((\A t \in Threads : pc[t] \in {"idle", "panicked"}) => canLock(rwMutex))
    /\ []((\A t \in Threads : mpc[t] \in {"idle", "panicked"}) =>
             (canLock(mtMutex) /\ canLock(stMutex)))

\* Both threads have made a write on the memtable and both calls are over:
\* the later of the two found the generation the earlier one created and
\* called its GetSize under the memtable's lock. No lock is held.
C24_Witness ==
    /\ \A t \in Threads : mop[t].name \in {"Update", "Delete"} /\ mpc[t] = "idle"
    /\ Len(mt.skiplists) >= 1
    /\ canLock(rwMutex) /\ canLock(mtMutex) /\ canLock(stMutex)

\* C25: head and tail are never taken for entries: no Insert, Update or
\* Delete, whatever its key (the empty string included), has its lookup come
\* back with head or tail as the matching node, and the value of head and of
\* tail stays nil.
C25_SentinelsNeverEntries ==
    /\ [](st.nodes[st.head].val = Nil /\ st.nodes[st.tail].val = Nil)
    /\ [][\A k \in Keys :
             (Delete(k) \/ \E v \in Vals : Insert(k, v) \/ Update(k, v)) =>
                search(st, k) \notin {st.head, st.tail}]_vars

\* C26: the live count is never taken below 0: read as an unsigned number,
\* GetSize() is at most the number of nodes created so far, head and tail
\* counted in.
C26_SizeNeverWraps ==
    uLeq(GetSize(st), Len(st.nodes))
====
